---- MODULE Spec2Model ----
(***************************************************************************)
(* The fca-news worker (src/src/index.ts): a scheduled run polls the news  *)
(* search API page by page, filters the items against the persisted        *)
(* watermark and the keyword lists, deduplicates them by canonical URL,    *)
(* decides through the send gate whether to notify the primary channel,    *)
(* persists the slot identifier and the watermark, and reports to the      *)
(* admin channel.                                                          *)
(*                                                                         *)
(* Instants are counted in minutes since an epoch at 00:00 UTC (the code   *)
(* counts milliseconds; nothing in it looks below the minute except to     *)
(* zero it).  An absent value (null / undefined) is the empty sequence     *)
(* None, a present value v is Some(v) = <<v>>.                             *)
(***************************************************************************)
EXTENDS Integers, Sequences, FiniteSets, TLC

VARIABLES
    kvLastSent,      \* KV "last_sent_target_iso": None or Some(ISO string)
    kvLastChecked,   \* KV "last_checked_time_iso": None or Some(ISO string)
    config,          \* what loadConfig resolves to (fixed over a behaviour)
    feed,            \* the search result list the API serves, first item first
    clock,           \* the wall clock, in minutes
    run,             \* per invocation: the locals of scheduled / handleTestPreview
    deliveredSlots,  \* history: slots for which the primary channel got a message
    deliveredLatest, \* history: the latest publish instant among the articles ever
                     \* delivered to the primary channel, None before the first
    call             \* the pure function under test, its inputs and its result

vars == <<kvLastSent, kvLastChecked, config, feed, clock, run,
          deliveredSlots, deliveredLatest, call>>

None == <<>>
Some(v) == <<v>>
Val(o) == o[1]

(***************************************************************************)
(* Bounds of the model.                                                    *)
(***************************************************************************)
\* the clock starts at 17:30 UTC = 02:30 KST
StartClock == 1050
\* the clock moves in steps of ClockStep minutes, at most MaxTicks of them
ClockStep == 30
MaxTicks == 2
\* the feed holds at most MaxFeed items
MaxFeed == 2

Procs == {1, 2}
Main == 1

(***************************************************************************)
(* Time helpers.                                                           *)
(***************************************************************************)
MinPerHour == 60
MinPerDay == 24 * MinPerHour

\* const KST_MS = 9 * 3600 * 1000, in minutes
KST_MS == 9 * MinPerHour
toKST(d) == d + KST_MS

getUTCHours(d) == (d % MinPerDay) \div MinPerHour
getUTCMinutes(d) == d % MinPerHour
\* Date.setUTCMinutes(0, 0, 0)
setUTCMinutes0(d) == d - getUTCMinutes(d)
\* mutant: an hour of 24 wraps to 0 of the same day
setUTCHours_NoCarry(d, h) ==
    (d - (d % MinPerDay)) + (h % 24) * MinPerHour + getUTCMinutes(d)

\* Date.setUTCHours(h): the hour field replaced, an hour of 24 rolling into the next day
setUTCHours(d, h) == (d - (d % MinPerDay)) + h * MinPerHour + getUTCMinutes(d)

\* Date.toISOString(): the UTC calendar fields of the instant
toISOString(d) ==
    [day |-> d \div MinPerDay, hh |-> getUTCHours(d), mm |-> getUTCMinutes(d)]
\* new Date(iso): the instant of an ISO string
parseISO(s) == s.day * MinPerDay + s.hh * MinPerHour + s.mm

\* mutant: an unparsable pubDate is taken for the epoch instead of being dropped
parsePubUTC_Epoch(pub) == Some(pub.local - pub.offset)

\* the item's pubDate string carries a local civil time and its offset ("+0900");
\* new Date(pub) is the absolute instant, or Invalid Date
parsePubUTC(pub) ==
    IF pub.valid THEN Some(pub.local - pub.offset) ELSE None

computeTargetKST(fromUTC) ==
    LET k == toKST(fromUTC)
        t0 == setUTCMinutes0(k)
        t == IF getUTCHours(t0) % 2 # 0 THEN setUTCHours(t0, getUTCHours(t0) + 1) ELSE t0
    IN  [targetKST |-> t, targetUTC |-> t - KST_MS]

(***************************************************************************)
(* Text helpers: a text is a sequence of characters; "<b>" and "</b>" are  *)
(* single tokens.                                                          *)
(***************************************************************************)
toLowerCase(c) ==
    CASE c = "K" -> "k"
      [] c = "R" -> "r"
      [] c = "W" -> "w"
      [] OTHER -> c

RECURSIVE collapse(_)
\* replace(/\s+/g, " "): every run of blanks becomes one blank
collapse(s) ==
    IF Len(s) < 2 THEN s
    ELSE IF s[1] = " " /\ s[2] = " " THEN collapse(Tail(s))
    ELSE <<s[1]>> \o collapse(Tail(s))

RECURSIVE trimLeft(_)
trimLeft(s) == IF s # <<>> /\ s[1] = " " THEN trimLeft(Tail(s)) ELSE s
RECURSIVE trimRight(_)
trimRight(s) ==
    IF s # <<>> /\ s[Len(s)] = " " THEN trimRight(SubSeq(s, 1, Len(s) - 1)) ELSE s
trim(s) == trimRight(trimLeft(s))

norm(s) == trim(collapse([i \in 1..Len(s) |-> toLowerCase(s[i])]))

\* String.prototype.includes
includes(t, k) ==
    \E i \in 0..(Len(t) - Len(k)) : SubSeq(t, i + 1, i + Len(k)) = k

\* rawTitle.replace(/<\/?b>/g, "")
stripB(s) == SelectSeq(s, LAMBDA c : c \notin {"<b>", "</b>"})

(***************************************************************************)
(* URLs: a URL string is the record of its scheme, the port written in it  *)
(* (None when there is none), the rest up to the query as a text, and the  *)
(* query parameters in order; a string that does not parse as a URL has    *)
(* valid = FALSE and its text in rest.                                     *)
(***************************************************************************)
TrackingParams ==
    {"utm_source", "utm_medium", "utm_campaign", "utm_term", "utm_content",
     "utm_id", "fbclid", "gclid"}

\* the port a scheme implies
DefaultPort(scheme) ==
    CASE scheme = "http" -> Some(80)
      [] scheme = "https" -> Some(443)
      [] OTHER -> None

\* new URL(u) on a string that parses: blanks around it are stripped, and a port
\* written out that is the default of the scheme is dropped
parseUrl(u) ==
    [u EXCEPT !.rest = trim(@),
              !.port = IF @ = DefaultPort(u.scheme) THEN None ELSE @]

\* url.protocol = "https:": the scheme is replaced, and a port that is the
\* default of the new scheme is dropped
setProtocol(url, scheme) ==
    [url EXCEPT !.scheme = scheme,
                !.port = IF @ = DefaultPort(scheme) THEN None ELSE @]

\* mutant: only the first of the listed parameters is deleted
deleteParams_First(url, keys) ==
    [url EXCEPT !.params = SelectSeq(@, LAMBDA kv : kv[1] # "utm_source")]

\* [...].forEach(k => url.searchParams.delete(k)): every pair named k goes
deleteParams(url, keys) ==
    [url EXCEPT !.params = SelectSeq(@, LAMBDA kv : kv[1] \notin keys)]

\* url.toString() gives the string of the record; a string that does not parse
\* comes back trimmed
normalizeUrl(u) ==
    IF u.valid
    THEN deleteParams(setProtocol(parseUrl(u), "https"), TrackingParams)
    ELSE [u EXCEPT !.rest = trim(@)]

\* decodeHtml, on the entity tokens of the alphabet
decodeHtml(s) ==
    [i \in 1..Len(s) |->
        CASE s[i] = "&quot;" -> "\""
          [] s[i] = "&lt;" -> "<"
          [] s[i] = "&gt;" -> ">"
          [] s[i] = "&amp;" -> "&"
          [] OTHER -> s[i]]

(***************************************************************************)
(* The items the search API can serve.                                     *)
(***************************************************************************)
PubDate(utc) == [valid |-> TRUE, local |-> utc + KST_MS, offset |-> KST_MS]
BadDate == [valid |-> FALSE, local |-> 0, offset |-> 0]

\* two publish instants before the first run, the second the later
P1 == StartClock - 2 * ClockStep
P2 == StartClock - ClockStep

Url(scheme, rest, params) ==
    [valid |-> TRUE, scheme |-> scheme, port |-> None, rest |-> <<rest>>,
     params |-> params]
LinkA == Url("http", "news/a", << <<"utm_source", "x">> >>)
LinkA2 == Url("https", "news/a", <<>>)
LinkB == Url("https", "news/b", << <<"id", "7">> >>)

TitleWin == <<"<b>", "K", "</b>", " ", " ", "W">>
TitleRumor == <<"k", "&amp;", "R">>

Item(title, link, pubDate) == [title |-> title, link |-> link, pubDate |-> pubDate]
Items ==
    { Item(TitleWin, LinkA, PubDate(P1)),
      Item(TitleWin, LinkA2, PubDate(P2)),
      Item(TitleRumor, LinkB, PubDate(P2)),
      Item(TitleWin, LinkB, BadDate) }

EvenHours == {h \in 0..23 : h % 2 = 0}

Cfg(d, l, m, f, inc, exc) ==
    [display_per_call |-> d, max_loops |-> l, min_send_threshold |-> m,
     force_hours |-> f, include_keywords |-> inc, exclude_keywords |-> exc]
Configs ==
    { Cfg(1, 2, 1, EvenHours, << <<"K", " ">> >>, << <<"r">> >>),
      Cfg(2, 1, 0, {}, << <<" ", "W">> >>, <<>>),
      Cfg(2, 2, 2, EvenHours, <<>>, << <<"r">> >>) }

(***************************************************************************)
(* searchRecentNews: the per-item filter chain.                            *)
(***************************************************************************)
\* mutant: the comparison is strict, an item published at the watermark passes
tooOld_Strict(lastChecked, pubUTC) ==
    lastChecked # None /\ pubUTC < Val(lastChecked)

\* lastChecked && pubUTC.getTime() <= lastChecked.getTime()
tooOld(lastChecked, pubUTC) ==
    lastChecked # None /\ pubUTC <= Val(lastChecked)

includeOk(cfg, tNorm) ==
    IF Len(cfg.include_keywords) > 0
    THEN \E i \in 1..Len(cfg.include_keywords) : includes(tNorm, norm(cfg.include_keywords[i]))
    ELSE TRUE

excludeHit(cfg, tNorm) ==
    /\ Len(cfg.exclude_keywords) > 0
    /\ \E i \in 1..Len(cfg.exclude_keywords) : includes(tNorm, norm(cfg.exclude_keywords[i]))

\* mutant: the seen set is never consulted
isDuplicate_Never(seen, link) == FALSE

\* seen.has(link)
isDuplicate(seen, link) == link \in seen

\* mutant: the link of an accepted item is not remembered
addSeen_Forget(seen, link) == seen

\* seen.add(link)
addSeen(seen, link) == seen \cup {link}

\* the body of `for (const it of items)`; st.pos counts the items gone through
processItem(st, it, cfg, lastChecked) ==
    LET title == decodeHtml(stripB(it.title))
        link == normalizeUrl(it.link)
        pubUTC == parsePubUTC(it.pubDate)
        st0 == [st EXCEPT !.pos = @ + 1]
    IN  IF pubUTC = None THEN st0
        ELSE IF tooOld(lastChecked, Val(pubUTC))
        THEN [st0 EXCEPT !.stopDueToOld = TRUE]
        ELSE LET st1 == [st0 EXCEPT !.time_filtered = @ + 1,
                                    !.pubTimesUTC = Append(@, Val(pubUTC))]
                 tNorm == norm(title)
             IN  IF ~includeOk(cfg, tNorm)
                 THEN [st1 EXCEPT !.title_include_fail = @ + 1]
                 ELSE IF excludeHit(cfg, tNorm)
                 THEN [st1 EXCEPT !.title_exclude_hit = @ + 1]
                 ELSE IF isDuplicate(st1.seen, link) THEN st1
                 ELSE [st1 EXCEPT
                         !.seen = addSeen(@, link),
                         !.collected = Append(@, [title |-> title, link |-> link,
                                                  pubUTC |-> Val(pubUTC)]),
                         !.accepted = Append(@, st0.pos)]

RECURSIVE processItems(_, _, _, _)
processItems(st, items, cfg, lastChecked) ==
    IF items = <<>> THEN st
    ELSE processItems(processItem(st, Head(items), cfg, lastChecked),
                      Tail(items), cfg, lastChecked)

Max(a, b) == IF a > b THEN a ELSE b
Min(a, b) == IF a < b THEN a ELSE b

\* pubTimesUTC.reduce((a, b) => a > b ? a : b), null for an empty list
RECURSIVE reduceMax(_)
reduceMax(s) == IF Len(s) = 1 THEN s[1] ELSE Max(s[1], reduceMax(Tail(s)))
\* mutant: the first instant pushed is taken for the latest
latestOf_First(pubTimesUTC) ==
    IF pubTimesUTC # <<>> THEN Some(pubTimesUTC[1]) ELSE None

latestOf(pubTimesUTC) ==
    IF pubTimesUTC # <<>> THEN Some(reduceMax(pubTimesUTC)) ELSE None

\* the page the API serves for start = (page - 1) * DISPLAY + 1, display = DISPLAY
startOf(page, display) == (page - 1) * display + 1
pageOf(list, page, display) ==
    SubSeq(list, startOf(page, display),
           Min(Len(list), startOf(page, display) + display - 1))

(***************************************************************************)
(* Policy helper.                                                          *)
(***************************************************************************)
\* mutant: the forced hours are ignored
computeShouldSend_NoForce(nowKST, candidateCount, minSend, forceHours) ==
    candidateCount >= minSend

computeShouldSend(nowKST, candidateCount, minSend, forceHours) ==
    IF getUTCHours(nowKST) \in forceHours
    THEN candidateCount >= 1
    ELSE candidateCount >= minSend

\* mutant: any candidate is sent, whatever the gate said
sendBranch_AnyCandidate(shouldSend, candidateCount) == candidateCount > 0

\* mutant: the send branch is entered on the gate's word alone
sendBranch_GateOnly(shouldSend, candidateCount) == shouldSend

\* the guard of the send branch of scheduled: shouldSend && collected.length > 0
sendBranch(shouldSend, candidateCount) == shouldSend /\ candidateCount > 0

(***************************************************************************)
(* The invocations.  run[p] holds the locals of invocation p; its fields   *)
(* responses, accepted, pos, kv0, sends and writes record what the         *)
(* invocation asked of the outside world and are not read by it.           *)
(***************************************************************************)
IdleRun ==
    [kind |-> "none", pc |-> "idle", eventTime |-> 0,
     kv0 |-> [sent |-> None, checked |-> None],
     lastChecked |-> None, page |-> 1, stopDueToOld |-> FALSE,
     seen |-> {}, collected |-> <<>>, accepted |-> <<>>, pos |-> 0,
     pubTimesUTC |-> <<>>, loopReports |-> <<>>, responses |-> <<>>,
     latestUTC |-> None, targetIso |-> None, lastSent |-> None, shouldSend |-> FALSE,
     sends |-> <<>>, writes |-> <<>>,
     threw |-> FALSE, skipped |-> FALSE, rejected |-> FALSE,
     prev |-> None]

\* the search of invocation r went through without a failed request
searchComplete(r) ==
    /\ r.pc \notin {"idle", "loadConfig", "getChecked", "fetch"}
    /\ r.responses # <<>>
    /\ \A i \in 1..Len(r.responses) : r.responses[i].status = "ok"

\* a scheduled invocation that came to the send gate and did not send
declined(r) ==
    /\ r.kind = "scheduled"
    /\ r.pc \in {"report", "done"}
    /\ r.targetIso # None
    /\ ~r.skipped
    /\ ~(r.shouldSend /\ Len(r.collected) > 0)

\* prev remembers the candidates of the invocation before this one when that one
\* declined to send (the feed has not changed since: a change clears the locals)
NewRun(kind, t, before) ==
    [IdleRun EXCEPT !.kind = kind, !.pc = "loadConfig", !.eventTime = t,
                    !.kv0 = [sent |-> kvLastSent, checked |-> kvLastChecked],
                    !.prev = IF before.pc = "done" /\ declined(before) /\ searchComplete(before)
                             THEN Some(before.collected) ELSE None]

Resting(p) == run[p].pc \in {"idle", "done"}
LastClock == StartClock + MaxTicks * ClockStep

\* an exception leaves the try block of scheduled for its catch block; the
\* preview handler has no try block and its promise rejects
raise(r) ==
    IF r.kind = "scheduled"
    THEN [r EXCEPT !.pc = "catch", !.threw = TRUE]
    ELSE [r EXCEPT !.pc = "done", !.threw = TRUE, !.rejected = TRUE]

Set(p, r) == run' = [run EXCEPT ![p] = r]

\* the scheduler fires scheduled(event, env), event.scheduledTime = t
ScheduledStart(p) ==
    /\ Resting(p)
    /\ \E d \in 0..MaxTicks :
          /\ clock + d * ClockStep <= LastClock
          /\ clock' = clock + d * ClockStep
          /\ Set(p, NewRun("scheduled", clock + d * ClockStep, run[p]))
    /\ UNCHANGED <<kvLastSent, kvLastChecked, config, feed,
                   deliveredSlots, deliveredLatest, call>>

\* GET /test
PreviewStart(p) ==
    /\ Resting(p)
    /\ Set(p, NewRun("preview", clock, run[p]))
    /\ UNCHANGED <<kvLastSent, kvLastChecked, config, feed, clock,
                   deliveredSlots, deliveredLatest, call>>

\* const cfg = await loadConfig(env): the KV reads succeed or one of them throws
LoadConfig(p) ==
    /\ run[p].pc = "loadConfig"
    /\ \/ Set(p, [run[p] EXCEPT !.pc = "getChecked"])
       \/ Set(p, raise(run[p]))
    /\ UNCHANGED <<kvLastSent, kvLastChecked, config, feed, clock,
                   deliveredSlots, deliveredLatest, call>>

\* const lastCheckedUTC = await env.FCANEWS_KV.get(KV_LAST_CHECKED)
readLastChecked(stored) ==
    IF stored # None THEN Some(parseISO(Val(stored))) ELSE None

GetLastChecked(p) ==
    /\ run[p].pc = "getChecked"
    /\ \/ Set(p, [run[p] EXCEPT !.pc = "fetch",
                                !.lastChecked = readLastChecked(kvLastChecked)])
       \/ Set(p, raise(run[p]))
    /\ UNCHANGED <<kvLastSent, kvLastChecked, config, feed, clock,
                   deliveredSlots, deliveredLatest, call>>

\* mutant: the preview handler goes on like scheduled
afterSearch_Scheduled(r) ==
    [r EXCEPT !.latestUTC = latestOf(r.pubTimesUTC), !.pc = "slot"]

\* the loop is left: latestUTC is computed and searchRecentNews returns to its caller
afterSearch(r) ==
    [r EXCEPT !.latestUTC = latestOf(r.pubTimesUTC),
              !.pc = IF r.kind = "scheduled" THEN "slot" ELSE "preview"]

\* mutant: the stop signal of the watermark filter is not looked at
continuePaging_NoStop(stopDueToOld, fetched, display, page, maxLoops) ==
    /\ ~(fetched < display)
    /\ page + 1 <= maxLoops

\* mutant: the loop is left after its first page
continuePaging_FirstPageOnly(stopDueToOld, fetched, display, page, maxLoops) == FALSE

\* mutant: the loop has no ceiling on the page number
continuePaging_NoCeiling(stopDueToOld, fetched, display, page, maxLoops) ==
    /\ ~stopDueToOld
    /\ ~(fetched < display)

\* if (stopDueToOld) break; if (items.length < DISPLAY) break; page++ <= MAX_LOOPS
continuePaging(stopDueToOld, fetched, display, page, maxLoops) ==
    /\ ~stopDueToOld
    /\ ~(fetched < display)
    /\ page + 1 <= maxLoops

\* mutant: the items the exclude list hit are taken off the include-pass count
loopReport_PassAfterExclude(page, fetched, st) ==
    [call_no |-> page, fetched |-> fetched,
     time_filtered |-> st.time_filtered,
     title_include_fail |-> st.title_include_fail,
     title_exclude_hit |-> st.title_exclude_hit,
     title_include_pass |->
         Max(0, st.time_filtered - st.title_include_fail - st.title_exclude_hit)]

\* loopReports.push({ call_no: page, fetched, ... })
loopReport(page, fetched, st) ==
    [call_no |-> page, fetched |-> fetched,
     time_filtered |-> st.time_filtered,
     title_include_fail |-> st.title_include_fail,
     title_exclude_hit |-> st.title_exclude_hit,
     title_include_pass |-> Max(0, st.time_filtered - st.title_include_fail)]

\* one turn of the page loop on a page that came back with status 200
pageDone(r, items, cfg) ==
    LET st0 == [stopDueToOld |-> r.stopDueToOld, seen |-> r.seen,
                collected |-> r.collected, accepted |-> r.accepted, pos |-> r.pos,
                pubTimesUTC |-> r.pubTimesUTC,
                time_filtered |-> 0, title_include_fail |-> 0, title_exclude_hit |-> 0]
        st == processItems(st0, items, cfg, r.lastChecked)
        report == loopReport(r.page, Len(items), st)
        r1 == [r EXCEPT !.stopDueToOld = st.stopDueToOld, !.seen = st.seen,
                        !.collected = st.collected, !.accepted = st.accepted,
                        !.pos = st.pos, !.pubTimesUTC = st.pubTimesUTC,
                        !.loopReports = Append(@, report)]
    IN  IF continuePaging(st.stopDueToOld, Len(items), cfg.display_per_call,
                          r.page, cfg.max_loops)
        THEN [r1 EXCEPT !.page = @ + 1]
        ELSE afterSearch(r1)

Response(page, status, items) == [page |-> page, status |-> status, items |-> items]

\* const r = await fetch(url, ...) for the current page, and the loop body after it
FetchPage(p) ==
    /\ run[p].pc = "fetch"
    /\ LET r == run[p]
           items == pageOf(feed, r.page, config.display_per_call)
       IN  \/ \* the request throws (transport error)
              Set(p, raise([r EXCEPT !.responses = Append(@, Response(r.page, "throw", <<>>))]))
           \/ \* !r.ok
              Set(p, afterSearch([r EXCEPT !.responses = Append(@, Response(r.page, "error", <<>>))]))
           \/ \* status 200
              LET r1 == [r EXCEPT !.responses = Append(@, Response(r.page, "ok", items))]
              IN  Set(p, IF items = <<>> THEN afterSearch(r1)
                         ELSE pageDone(r1, items, config))
    /\ UNCHANGED <<kvLastSent, kvLastChecked, config, feed, clock,
                   deliveredSlots, deliveredLatest, call>>

(***************************************************************************)
(* scheduled, after searchRecentNews.                                      *)
(***************************************************************************)
\* sendTelegram(text, chatId, env): the request is answered with res.ok
\* ("ok": delivered), with another status ("status": logged, and sendTelegram
\* returns normally), or fetch throws ("throw")
Sent(chat, what, outcome) == [chat |-> chat, what |-> what, outcome |-> outcome]
SendOutcomes == {"ok", "status", "throw"}
sendTelegram(r, chat, what, outcome) ==
    LET r1 == [r EXCEPT !.sends = Append(@, Sent(chat, what, outcome))]
    IN  IF outcome = "throw" THEN raise(r1) ELSE r1

\* const targetIso = ...; const lastSent = await KV.get(KV_LAST_SENT);
\* if (lastSent === targetIso) return; const shouldSend = computeShouldSend(...)
slotOf(eventTime) == toISOString(computeTargetKST(eventTime).targetUTC)
\* mutant: the slot check never finds the slot handled
alreadySent_Never(lastSent, targetIso) == FALSE
\* mutant: any stored slot identifier counts as this slot's
alreadySent_AnyStored(lastSent, targetIso) == lastSent # None

alreadySent(lastSent, targetIso) == lastSent = Some(targetIso)

\* mutant: the admin report is composed only inside the send branch
afterGate_ReportOnSend(shouldSend, candidateCount) ==
    IF shouldSend /\ candidateCount > 0 THEN "sendPrimary" ELSE "done"

\* if (shouldSend && collected.length > 0) { ... } and then the admin report
afterGate(shouldSend, candidateCount) ==
    IF sendBranch(shouldSend, candidateCount) THEN "sendPrimary" ELSE "report"

SlotCheck(p) ==
    /\ run[p].pc = "slot"
    /\ LET r == run[p]
           targetIso == slotOf(r.eventTime)
           shouldSend == computeShouldSend(toKST(r.eventTime), Len(r.collected),
                                           config.min_send_threshold, config.force_hours)
           r1 == [r EXCEPT !.targetIso = Some(targetIso), !.lastSent = kvLastSent]
       IN  \/ Set(p, raise(r))
           \/ Set(p, IF alreadySent(kvLastSent, targetIso)
                     THEN [r1 EXCEPT !.pc = "done", !.skipped = TRUE]
                     ELSE [r1 EXCEPT !.shouldSend = shouldSend,
                                     !.pc = afterGate(shouldSend, Len(r.collected))])
    /\ UNCHANGED <<kvLastSent, kvLastChecked, config, feed, clock,
                   deliveredSlots, deliveredLatest, call>>

Range(s) == {s[i] : i \in 1..Len(s)}

\* the latest publish instant of what was delivered before and of the articles of body
laterOf(before, articles) ==
    LET pubs == {a.pubUTC : a \in Range(articles)} \cup Range(before)
    IN  Some(CHOOSE x \in pubs : \A y \in pubs : y <= x)

\* mutant: the write of the slot identifier is passed over
afterPrimary_SkipSlot(r) == IF r.pc = "catch" THEN r ELSE [r EXCEPT !.pc = "putChecked"]

\* await sendTelegram(body, env.TELEGRAM_CHAT_ID, env)
afterPrimary(r) == IF r.pc = "catch" THEN r ELSE [r EXCEPT !.pc = "putSent"]

SendPrimary(p) ==
    /\ run[p].pc = "sendPrimary"
    /\ \E o \in SendOutcomes :
          /\ Set(p, afterPrimary(sendTelegram(run[p], "primary", "news", o)))
          /\ IF o = "ok"
             THEN /\ deliveredSlots' = deliveredSlots \cup {Val(run[p].targetIso)}
                  /\ deliveredLatest' = laterOf(deliveredLatest, run[p].collected)
             ELSE UNCHANGED <<deliveredSlots, deliveredLatest>>
    /\ UNCHANGED <<kvLastSent, kvLastChecked, config, feed, clock, call>>

Write(key, value) == [key |-> key, value |-> value]

\* await env.FCANEWS_KV.put(KV_LAST_SENT, targetIso); if (latestUTC) ...
afterPutSent(r) ==
    [r EXCEPT !.pc = IF r.latestUTC # None THEN "putChecked" ELSE "report"]

PutLastSent(p) ==
    /\ run[p].pc = "putSent"
    /\ \/ /\ kvLastSent' = run[p].targetIso
          /\ Set(p, afterPutSent([run[p] EXCEPT
                      !.writes = Append(@, Write("last_sent_target_iso", Val(run[p].targetIso)))]))
       \/ /\ Set(p, raise(run[p]))
          /\ UNCHANGED kvLastSent
    /\ UNCHANGED <<kvLastChecked, config, feed, clock,
                   deliveredSlots, deliveredLatest, call>>

\* await env.FCANEWS_KV.put(KV_LAST_CHECKED, latestUTC.toISOString())
newWatermark(r) == toISOString(Val(r.latestUTC))

PutLastChecked(p) ==
    /\ run[p].pc = "putChecked"
    /\ \/ /\ kvLastChecked' = Some(newWatermark(run[p]))
          /\ Set(p, [run[p] EXCEPT
                      !.pc = "report",
                      !.writes = Append(@, Write("last_checked_time_iso", newWatermark(run[p])))])
       \/ /\ Set(p, raise(run[p]))
          /\ UNCHANGED kvLastChecked
    /\ UNCHANGED <<kvLastSent, config, feed, clock,
                   deliveredSlots, deliveredLatest, call>>

\* await sendTelegram(lines.join("\n"), env.ADMIN_CHAT_ID, env)
afterReport(r) == IF r.pc = "catch" THEN r ELSE [r EXCEPT !.pc = "done"]

Report(p) ==
    /\ run[p].pc = "report"
    /\ \E o \in SendOutcomes :
          Set(p, afterReport(sendTelegram(run[p], "admin", "report", o)))
    /\ UNCHANGED <<kvLastSent, kvLastChecked, config, feed, clock,
                   deliveredSlots, deliveredLatest, call>>

\* catch (e) { await sendTelegram("... error ...", env.ADMIN_CHAT_ID, env); }
\* a throw inside the catch block rejects the promise scheduled returned
Catch(p) ==
    /\ run[p].pc = "catch"
    /\ \E o \in SendOutcomes :
          Set(p, [run[p] EXCEPT
                    !.sends = Append(@, Sent("admin", "error", o)),
                    !.rejected = (o = "throw"),
                    !.pc = "done"])
    /\ UNCHANGED <<kvLastSent, kvLastChecked, config, feed, clock,
                   deliveredSlots, deliveredLatest, call>>

(***************************************************************************)
(* handleTestPreview, after searchRecentNews.                              *)
(***************************************************************************)
Preview(p) ==
    /\ run[p].pc = "preview"
    /\ \E o \in SendOutcomes :
          LET r == [run[p] EXCEPT
                      !.eventTime = clock,
                      !.shouldSend = computeShouldSend(toKST(clock), Len(run[p].collected),
                                         config.min_send_threshold, config.force_hours)]
              r1 == sendTelegram(r, "admin", "preview", o)
          IN  Set(p, IF o = "throw" THEN r1 ELSE [r1 EXCEPT !.pc = "done"])
    /\ UNCHANGED <<kvLastSent, kvLastChecked, config, feed, clock,
                   deliveredSlots, deliveredLatest, call>>

(***************************************************************************)
(* The environment: the search API's result list changes between runs.     *)
(***************************************************************************)
AllResting == \A q \in Procs : Resting(q)

\* the locals of the invocations that returned are gone by then
Publish ==
    /\ AllResting
    /\ Len(feed) < MaxFeed
    /\ \E it \in Items : feed' = <<it>> \o feed
    /\ run' = [p \in Procs |-> IdleRun]
    /\ UNCHANGED <<kvLastSent, kvLastChecked, config, clock,
                   deliveredSlots, deliveredLatest, call>>

Expire ==
    /\ AllResting
    /\ feed # <<>>
    /\ feed' = SubSeq(feed, 1, Len(feed) - 1)
    /\ run' = [p \in Procs |-> IdleRun]
    /\ UNCHANGED <<kvLastSent, kvLastChecked, config, clock,
                   deliveredSlots, deliveredLatest, call>>

NoCall == [fn |-> "none"]

(***************************************************************************)
(* Invocations one after the other.                                        *)
(***************************************************************************)
Init ==
    /\ kvLastSent = None
    /\ kvLastChecked = None
    /\ config \in Configs
    /\ feed = <<>>
    /\ clock = StartClock
    /\ run = [p \in Procs |-> IdleRun]
    /\ deliveredSlots = {}
    /\ deliveredLatest = None
    /\ call = NoCall

Step(p) ==
    \/ LoadConfig(p)
    \/ GetLastChecked(p)
    \/ FetchPage(p)
    \/ SlotCheck(p)
    \/ SendPrimary(p)
    \/ PutLastSent(p)
    \/ PutLastChecked(p)
    \/ Report(p)
    \/ Catch(p)
    \/ Preview(p)

Next ==
    \/ AllResting /\ ScheduledStart(Main)
    \/ AllResting /\ PreviewStart(Main)
    \/ Step(Main)
    \/ Publish
    \/ Expire

Spec == Init /\ [][Next]_vars

(***************************************************************************)
(* Invocations one after the other in which every notification is          *)
(* delivered (res.ok) and every KV put succeeds; the search requests and   *)
(* the KV reads may still fail.                                            *)
(***************************************************************************)
\* the step of invocation p, if it sends, is answered with res.ok, and if it
\* writes, the put does not throw
succeeds(p) ==
    /\ run[p].pc \in {"putSent", "putChecked"} => ~run'[p].threw
    /\ Len(run'[p].sends) > Len(run[p].sends) =>
          run'[p].sends[Len(run'[p].sends)].outcome = "ok"

NextSucceeding ==
    \/ AllResting /\ ScheduledStart(Main)
    \/ AllResting /\ PreviewStart(Main)
    \/ Step(Main) /\ succeeds(Main)
    \/ Publish
    \/ Expire

SpecSucceeding == Init /\ [][NextSucceeding]_vars

(***************************************************************************)
(* searchRecentNews on its own: one invocation, up to the return of the    *)
(* search, for every feed of at most MaxFeed items and every watermark an  *)
(* earlier run can have stored (none, or the instant of an item).          *)
(***************************************************************************)
Feeds == UNION {[1..n -> Items] : n \in 0..MaxFeed}
Watermarks == {None, Some(toISOString(P1)), Some(toISOString(P2))}

InitSearch ==
    /\ kvLastSent = None
    /\ kvLastChecked \in Watermarks
    /\ config \in Configs
    /\ feed \in Feeds
    /\ clock = StartClock
    /\ run = [p \in Procs |-> IdleRun]
    /\ deliveredSlots = {}
    /\ deliveredLatest = None
    /\ call = NoCall

NextSearch ==
    \/ run[Main].pc = "idle" /\ ScheduledStart(Main)
    \/ run[Main].pc = "idle" /\ PreviewStart(Main)
    \/ LoadConfig(Main)
    \/ GetLastChecked(Main)
    \/ FetchPage(Main)

SpecSearch == InitSearch /\ [][NextSearch]_vars

\* every awaited call of the search comes back: a KV read or a search request
\* that is outstanding is answered or fails, it does not hang
SearchAnswered ==
    /\ WF_vars(LoadConfig(Main))
    /\ WF_vars(GetLastChecked(Main))
    /\ WF_vars(FetchPage(Main))

SpecSearchFair == SpecSearch /\ SearchAnswered

(***************************************************************************)
(* searchRecentNews over result lists long enough to leave pages unasked.  *)
(***************************************************************************)
\* the result list holds at most MaxLongFeed items
MaxLongFeed == 4
LongFeeds == UNION {[1..n -> Items] : n \in 0..MaxLongFeed}

InitPaging ==
    /\ kvLastSent = None
    /\ kvLastChecked \in Watermarks
    /\ config \in Configs
    /\ feed \in LongFeeds
    /\ clock = StartClock
    /\ run = [p \in Procs |-> IdleRun]
    /\ deliveredSlots = {}
    /\ deliveredLatest = None
    /\ call = NoCall

SpecPaging == InitPaging /\ [][NextSearch]_vars

(***************************************************************************)
(* Two scheduled invocations that overlap: the platform may start a second *)
(* invocation while the first is still running, and nothing in scheduled   *)
(* waits for the other.  Each invocation runs once; the feed holds what    *)
(* was published before them.                                              *)
(***************************************************************************)
InitOverlap ==
    /\ kvLastSent = None
    /\ kvLastChecked = None
    /\ config \in Configs
    /\ \E it \in Items : feed = <<it>>
    /\ clock = StartClock
    /\ run = [p \in Procs |-> IdleRun]
    /\ deliveredSlots = {}
    /\ deliveredLatest = None
    /\ call = NoCall

OverlapStart(p) ==
    /\ run[p].pc = "idle"
    /\ ScheduledStart(p)

StepScheduled(p) ==
    \/ LoadConfig(p)
    \/ GetLastChecked(p)
    \/ FetchPage(p)
    \/ SlotCheck(p)
    \/ SendPrimary(p)
    \/ PutLastSent(p)
    \/ PutLastChecked(p)
    \/ Report(p)
    \/ Catch(p)

NextOverlap ==
    \E p \in Procs :
        \/ OverlapStart(p)
        \/ StepScheduled(p)

SpecOverlap == InitOverlap /\ [][NextOverlap]_vars

(***************************************************************************)
(* The earlier variant of the worker (src/unnamed/part_001), its scheduled *)
(* pipeline.  It checks the slot before it searches, reads its settings    *)
(* from the environment alone, forces a fixed set of hours, and carries    *)
(* the publish instants shifted by nine hours (pubKST); run[p].pubTimesUTC *)
(* and run[p].latestUTC hold those shifted instants here, and the          *)
(* candidates carry them as pubKST.                                        *)
(***************************************************************************)
\* new Date(dt.getTime() + KST_MS), null for an Invalid Date
parsePubToKST(pub) ==
    IF pub.valid THEN Some((pub.local - pub.offset) + KST_MS) ELSE None

lower(s) == [i \in 1..Len(s) |-> toLowerCase(s[i])]

\* includeKeywords.some(k => t.includes(k.toLowerCase())), t = title.toLowerCase()
includeOk001(cfg, title) ==
    IF Len(cfg.include_keywords) > 0
    THEN \E i \in 1..Len(cfg.include_keywords) :
            includes(lower(title), lower(cfg.include_keywords[i]))
    ELSE TRUE

excludeHit001(cfg, title) ==
    /\ Len(cfg.exclude_keywords) > 0
    /\ \E i \in 1..Len(cfg.exclude_keywords) :
          includes(lower(title), lower(cfg.exclude_keywords[i]))

\* the body of `for (const it of items)` of the variant
processItem001(st, it, cfg, lastChecked) ==
    LET title == stripB(it.title)
        link == normalizeUrl(it.link)
        pubKST == parsePubToKST(it.pubDate)
        st0 == [st EXCEPT !.pos = @ + 1]
    IN  IF pubKST = None THEN st0
        ELSE IF tooOld(lastChecked, Val(pubKST))
        THEN [st0 EXCEPT !.stopDueToOld = TRUE]
        ELSE LET st1 == [st0 EXCEPT !.time_filtered = @ + 1,
                                    !.pubTimesUTC = Append(@, Val(pubKST))]
             IN  IF ~includeOk001(cfg, title)
                 THEN [st1 EXCEPT !.title_include_fail = @ + 1]
                 ELSE IF excludeHit001(cfg, title)
                 THEN [st1 EXCEPT !.title_exclude_hit = @ + 1]
                 ELSE IF isDuplicate(st1.seen, link) THEN st1
                 ELSE [st1 EXCEPT
                         !.seen = addSeen(@, link),
                         !.collected = Append(@, [title |-> title, link |-> link,
                                                  pubKST |-> Val(pubKST)]),
                         !.accepted = Append(@, st0.pos)]

RECURSIVE processItems001(_, _, _, _)
processItems001(st, items, cfg, lastChecked) ==
    IF items = <<>> THEN st
    ELSE processItems001(processItem001(st, Head(items), cfg, lastChecked),
                         Tail(items), cfg, lastChecked)

\* const FORCE = new Set([0,8,10,12,14,16,18,20,22])
FORCE == {0, 8, 10, 12, 14, 16, 18, 20, 22}
computeShouldSend001(nowKST, candidateCount, minSend) ==
    IF getUTCHours(nowKST) \in FORCE
    THEN candidateCount >= 1
    ELSE candidateCount >= minSend

\* Math.max(Number(env.MIN_SEND_THRESHOLD || "3"), 1)
minSend001(cfg) == Max(cfg.min_send_threshold, 1)

\* searchRecentNews returns; scheduled computes the gate and takes the send
\* branch or goes to the admin report
afterSearch001(r) ==
    LET shouldSend == computeShouldSend001(toKST(r.eventTime), Len(r.collected),
                                           minSend001(config))
    IN  [r EXCEPT !.latestUTC = latestOf(r.pubTimesUTC),
                  !.shouldSend = shouldSend,
                  !.pc = IF shouldSend /\ Len(r.collected) > 0
                         THEN "sendPrimary001" ELSE "report"]

pageDone001(r, items, cfg) ==
    LET st0 == [stopDueToOld |-> r.stopDueToOld, seen |-> r.seen,
                collected |-> r.collected, accepted |-> r.accepted, pos |-> r.pos,
                pubTimesUTC |-> r.pubTimesUTC,
                time_filtered |-> 0, title_include_fail |-> 0, title_exclude_hit |-> 0]
        st == processItems001(st0, items, cfg, r.lastChecked)
        r1 == [r EXCEPT !.stopDueToOld = st.stopDueToOld, !.seen = st.seen,
                        !.collected = st.collected, !.accepted = st.accepted,
                        !.pos = st.pos, !.pubTimesUTC = st.pubTimesUTC,
                        !.loopReports = Append(@, loopReport(r.page, Len(items), st))]
    IN  IF continuePaging(st.stopDueToOld, Len(items), cfg.display_per_call,
                          r.page, cfg.max_loops)
        THEN [r1 EXCEPT !.page = @ + 1]
        ELSE afterSearch001(r1)

\* the scheduler fires scheduled(event, env) of the variant
Start001(p) ==
    /\ Resting(p)
    /\ \E d \in 0..MaxTicks :
          /\ clock + d * ClockStep <= LastClock
          /\ clock' = clock + d * ClockStep
          /\ Set(p, [NewRun("scheduled", clock + d * ClockStep, run[p])
                        EXCEPT !.pc = "slot001"])
    /\ UNCHANGED <<kvLastSent, kvLastChecked, config, feed,
                   deliveredSlots, deliveredLatest, call>>

\* const lastSent = await KV.get(KV_LAST_SENT); if (lastSent === targetIso) return
SlotCheck001(p) ==
    /\ run[p].pc = "slot001"
    /\ LET r == run[p]
           targetIso == slotOf(r.eventTime)
           r1 == [r EXCEPT !.targetIso = Some(targetIso), !.lastSent = kvLastSent]
       IN  \/ Set(p, raise(r))
           \/ Set(p, IF kvLastSent = Some(targetIso)
                     THEN [r1 EXCEPT !.pc = "done", !.skipped = TRUE]
                     ELSE [r1 EXCEPT !.pc = "getChecked001"])
    /\ UNCHANGED <<kvLastSent, kvLastChecked, config, feed, clock,
                   deliveredSlots, deliveredLatest, call>>

\* const lastCheckedUTC = await env.FCANEWS_KV.get(KV_LAST_CHECKED)
GetLastChecked001(p) ==
    /\ run[p].pc = "getChecked001"
    /\ \/ Set(p, [run[p] EXCEPT !.pc = "fetch001",
                                !.lastChecked = readLastChecked(kvLastChecked)])
       \/ Set(p, raise(run[p]))
    /\ UNCHANGED <<kvLastSent, kvLastChecked, config, feed, clock,
                   deliveredSlots, deliveredLatest, call>>

\* const r = await fetch(url, ...) for the current page, and the loop body after it
FetchPage001(p) ==
    /\ run[p].pc = "fetch001"
    /\ LET r == run[p]
           items == pageOf(feed, r.page, config.display_per_call)
       IN  \/ Set(p, raise([r EXCEPT !.responses = Append(@, Response(r.page, "throw", <<>>))]))
           \/ Set(p, afterSearch001([r EXCEPT !.responses = Append(@, Response(r.page, "error", <<>>))]))
           \/ LET r1 == [r EXCEPT !.responses = Append(@, Response(r.page, "ok", items))]
              IN  Set(p, IF items = <<>> THEN afterSearch001(r1)
                         ELSE pageDone001(r1, items, config))
    /\ UNCHANGED <<kvLastSent, kvLastChecked, config, feed, clock,
                   deliveredSlots, deliveredLatest, call>>

\* the latest true publish instant of what was delivered before and of the
\* candidates of the variant
laterOf001(before, articles) ==
    LET pubs == {a.pubKST - KST_MS : a \in Range(articles)} \cup Range(before)
    IN  Some(CHOOSE x \in pubs : \A y \in pubs : y <= x)

\* await sendTelegram(body, env.TELEGRAM_CHAT_ID, env)
SendPrimary001(p) ==
    /\ run[p].pc = "sendPrimary001"
    /\ \E o \in SendOutcomes :
          /\ LET r1 == sendTelegram(run[p], "primary", "news", o)
             IN  Set(p, IF r1.pc = "catch" THEN r1 ELSE [r1 EXCEPT !.pc = "putSent001"])
          /\ IF o = "ok"
             THEN /\ deliveredSlots' = deliveredSlots \cup {Val(run[p].targetIso)}
                  /\ deliveredLatest' = laterOf001(deliveredLatest, run[p].collected)
             ELSE UNCHANGED <<deliveredSlots, deliveredLatest>>
    /\ UNCHANGED <<kvLastSent, kvLastChecked, config, feed, clock, call>>

\* await env.FCANEWS_KV.put(KV_LAST_SENT, targetIso); if (latestKST) ...
PutLastSent001(p) ==
    /\ run[p].pc = "putSent001"
    /\ \/ /\ kvLastSent' = run[p].targetIso
          /\ Set(p, [run[p] EXCEPT
                      !.pc = IF run[p].latestUTC # None THEN "putChecked001" ELSE "report",
                      !.writes = Append(@, Write("last_sent_target_iso", Val(run[p].targetIso)))])
       \/ /\ Set(p, raise(run[p]))
          /\ UNCHANGED kvLastSent
    /\ UNCHANGED <<kvLastChecked, config, feed, clock,
                   deliveredSlots, deliveredLatest, call>>

\* const latestUTC = new Date(latestKST.getTime() - KST_MS);
\* await env.FCANEWS_KV.put(KV_LAST_CHECKED, latestUTC.toISOString())
newWatermark001(r) == toISOString(Val(r.latestUTC) - KST_MS)

PutLastChecked001(p) ==
    /\ run[p].pc = "putChecked001"
    /\ \/ /\ kvLastChecked' = Some(newWatermark001(run[p]))
          /\ Set(p, [run[p] EXCEPT
                      !.pc = "report",
                      !.writes = Append(@, Write("last_checked_time_iso",
                                                 newWatermark001(run[p])))])
       \/ /\ Set(p, raise(run[p]))
          /\ UNCHANGED kvLastChecked
    /\ UNCHANGED <<kvLastSent, config, feed, clock,
                   deliveredSlots, deliveredLatest, call>>

\* the admin report and the catch block read as in src/src/index.ts
Step001(p) ==
    \/ SlotCheck001(p)
    \/ GetLastChecked001(p)
    \/ FetchPage001(p)
    \/ SendPrimary001(p)
    \/ PutLastSent001(p)
    \/ PutLastChecked001(p)
    \/ Report(p)
    \/ Catch(p)

Next001 ==
    \/ AllResting /\ Start001(Main)
    \/ Step001(Main)
    \/ Publish
    \/ Expire

Spec001 == Init /\ [][Next001]_vars

(***************************************************************************)
(* The send gate on its own: computeShouldSend and the guard of the send   *)
(* branch, applied to every local hour, candidate count and threshold.     *)
(***************************************************************************)
\* the instants StartClock + k * ClockStep, k < GateTicks, cover a full day
GateTicks == 48
MaxCount == 6
ForceSets == {EvenHours, {0, 8, 10, 12, 14, 16, 18, 20, 22}, {}}

InitGate ==
    /\ kvLastSent = None
    /\ kvLastChecked = None
    /\ config \in Configs
    /\ feed = <<>>
    /\ clock = StartClock
    /\ run = [p \in Procs |-> IdleRun]
    /\ deliveredSlots = {}
    /\ deliveredLatest = None
    /\ \E k \in 0..(GateTicks - 1), c \in 0..MaxCount, m \in 0..MaxCount, f \in ForceSets :
          call = [fn |-> "computeShouldSend", nowUTC |-> StartClock + k * ClockStep,
                  candidateCount |-> c, minSend |-> m, forceHours |-> f,
                  done |-> FALSE, shouldSend |-> FALSE, sends |-> FALSE]

GateApply ==
    /\ call.fn = "computeShouldSend"
    /\ ~call.done
    /\ LET shouldSend == computeShouldSend(toKST(call.nowUTC), call.candidateCount,
                                           call.minSend, call.forceHours)
       IN  call' = [call EXCEPT !.done = TRUE, !.shouldSend = shouldSend,
                                !.sends = sendBranch(shouldSend, call.candidateCount)]
    /\ UNCHANGED <<kvLastSent, kvLastChecked, config, feed, clock, run,
                   deliveredSlots, deliveredLatest>>

NextGate == GateApply

SpecGate == InitGate /\ [][NextGate]_vars

(***************************************************************************)
(* The pure helpers on their own.  The store, the feed and the invocations *)
(* are at rest; call holds the inputs of the function and its result.      *)
(***************************************************************************)
\* the configuration loadConfig resolves to when no source sets anything
DefaultConfig == Cfg(30, 3, 1, EvenHours, <<>>, <<>>)

AtRest ==
    /\ kvLastSent = None
    /\ kvLastChecked = None
    /\ config = DefaultConfig
    /\ feed = <<>>
    /\ clock = StartClock
    /\ run = [p \in Procs |-> IdleRun]
    /\ deliveredSlots = {}
    /\ deliveredLatest = None

(***************************************************************************)
(* normalizeUrl, applied to every pair of URL strings of a small alphabet, *)
(* and once more to its result.                                            *)
(***************************************************************************)
\* a query holds at most MaxParams parameters
MaxParams == 2
ParamPairs ==
    {<<"utm_source", "1">>, <<"utm_source", "2">>, <<"gclid", "1">>, <<"id", "7">>}
Queries == UNION {[1..n -> ParamPairs] : n \in 0..MaxParams}
Urls ==
    [valid : {TRUE}, scheme : {"http", "https"},
     port : {None, Some(80), Some(443), Some(8080)},
     rest : {<<"h/a">>}, params : Queries]
    \cup
    [valid : {FALSE}, scheme : {""}, port : {None},
     rest : {<<"a b">>, <<" ", "a b">>, <<"a b", " ">>}, params : {<<>>}]

InitUrl ==
    /\ AtRest
    /\ \E u \in Urls, v \in Urls :
          call = [fn |-> "normalizeUrl", u |-> u, v |-> v, done |-> FALSE,
                  nu |-> u, nv |-> v, nnu |-> u]

UrlApply ==
    /\ call.fn = "normalizeUrl"
    /\ ~call.done
    /\ call' = [call EXCEPT !.done = TRUE,
                            !.nu = normalizeUrl(call.u),
                            !.nv = normalizeUrl(call.v),
                            !.nnu = normalizeUrl(normalizeUrl(call.u))]
    /\ UNCHANGED <<kvLastSent, kvLastChecked, config, feed, clock, run,
                   deliveredSlots, deliveredLatest>>

NextUrl == UrlApply

SpecUrl == InitUrl /\ [][NextUrl]_vars

(***************************************************************************)
(* computeTargetKST, applied to every minute of two days.                  *)
(***************************************************************************)
\* the instants 0 .. MaxNow
MaxNow == 2879

InitTarget ==
    /\ AtRest
    /\ \E n \in 0..MaxNow :
          call = [fn |-> "computeTargetKST", nowUTC |-> n, done |-> FALSE,
                  targetKST |-> 0, targetUTC |-> 0]

TargetApply ==
    /\ call.fn = "computeTargetKST"
    /\ ~call.done
    /\ LET t == computeTargetKST(call.nowUTC)
       IN  call' = [call EXCEPT !.done = TRUE, !.targetKST = t.targetKST,
                                !.targetUTC = t.targetUTC]
    /\ UNCHANGED <<kvLastSent, kvLastChecked, config, feed, clock, run,
                   deliveredSlots, deliveredLatest>>

NextTarget == TargetApply

SpecTarget == InitTarget /\ [][NextTarget]_vars

(***************************************************************************)
(* Configuration.  A JavaScript value is null (or undefined), a string (a  *)
(* text), a number, or an array.                                           *)
(***************************************************************************)
Null == [t |-> "null"]
Str(s) == [t |-> "str", s |-> s]
Num(n) == [t |-> "num", n |-> n]
Arr(a) == [t |-> "arr", a |-> a]
isNullish(v) == v.t = "null"

\* a ?? b ?? ... : the first operand that is neither null nor undefined (the last
\* operand of every chain in loadConfig is a string literal)
RECURSIVE coalesce(_)
coalesce(vs) ==
    IF Len(vs) = 1 \/ ~isNullish(vs[1]) THEN vs[1] ELSE coalesce(Tail(vs))

DigitVal ==
    [c \in {"0", "1", "2", "3", "4", "5", "6", "7", "8", "9"} |->
        CASE c = "0" -> 0 [] c = "1" -> 1 [] c = "2" -> 2 [] c = "3" -> 3
          [] c = "4" -> 4 [] c = "5" -> 5 [] c = "6" -> 6 [] c = "7" -> 7
          [] c = "8" -> 8 [] c = "9" -> 9]
RECURSIVE digitsValue(_)
digitsValue(s) ==
    IF s = <<>> THEN 0
    ELSE 10 * digitsValue(SubSeq(s, 1, Len(s) - 1)) + DigitVal[s[Len(s)]]

\* Number(v): None stands for NaN.  Blanks around a string are ignored and the
\* empty string is 0
Number(v) ==
    CASE v.t = "num" -> Some(v.n)
      [] v.t = "null" -> Some(0)
      [] v.t = "str" ->
            IF \A i \in 1..Len(trim(v.s)) : trim(v.s)[i] \in DOMAIN DigitVal
            THEN Some(digitsValue(trim(v.s))) ELSE None
      [] OTHER -> None

parseNumber(n, def, min, max) ==
    LET v == IF Number(n) = None THEN def ELSE Val(Number(n))
    IN  Min(max, Max(min, v))

\* s.split(sep) where every character of seps separates
RECURSIVE split(_, _)
split(s, seps) ==
    IF \E i \in 1..Len(s) : s[i] \in seps
    THEN LET i == CHOOSE i \in 1..Len(s) : s[i] \in seps /\ \A j \in 1..(i - 1) : s[j] \notin seps
         IN  <<SubSeq(s, 1, i - 1)>> \o split(SubSeq(s, i + 1, Len(s)), seps)
    ELSE <<s>>

\* line.replace(/#.*/g, "")
stripComment(line) ==
    IF \E i \in 1..Len(line) : line[i] = "#"
    THEN SubSeq(line, 1, (CHOOSE i \in 1..Len(line) :
                             line[i] = "#" /\ \A j \in 1..(i - 1) : line[j] # "#") - 1)
    ELSE line

RECURSIVE flatten(_)
flatten(ss) == IF ss = <<>> THEN <<>> ELSE Head(ss) \o flatten(Tail(ss))

\* parseListText: the lines without their comments, trimmed, the empty ones left
\* out, joined with commas; that split at the separators, the pieces trimmed, the
\* empty ones left out (the alphabet has no quote characters)
parseListText(raw) ==
    IF isNullish(raw) \/ raw.s = <<>> THEN <<>>
    ELSE LET lines0 == split(raw.s, {"\n"})
             lines1 == [i \in 1..Len(lines0) |-> trim(stripComment(lines0[i]))]
             lines == SelectSeq(lines1, LAMBDA l : l # <<>>)
             parts0 == flatten([i \in 1..Len(lines) |-> split(lines[i], {",", ";"})])
             parts == [i \in 1..Len(parts0) |-> trim(parts0[i])]
         IN  SelectSeq(parts, LAMBDA x : x # <<>>)

RECURSIVE pickList(_)
pickList(cands) ==
    IF cands = <<>> THEN <<>>
    ELSE IF parseListText(cands[1]) # <<>> THEN parseListText(cands[1])
    ELSE pickList(Tail(cands))

\* pickList(...cands).map(Number).filter(Number.isFinite)
pickNumList(cands) ==
    LET l == pickList(cands)
        finite == SelectSeq(l, LAMBDA x : Number(Str(x)) # None)
    IN  [i \in 1..Len(finite) |-> Val(Number(Str(finite[i])))]

\* "0,2,4,6,8,10,12,14,16,18,20,22"
ForceHoursDefault ==
    Str(<<"0", ",", "2", ",", "4", ",", "6", ",", "8", ",", "1", "0", ",", "1", "2", ",",
          "1", "4", ",", "1", "6", ",", "1", "8", ",", "2", "0", ",", "2", "2">>)

\* loadConfig, one field of its result.  src.raw says what KV holds under cfg:APP:
\* nothing ("absent"), a text JSON.parse throws on ("bad"), or an object
\* ("object") whose member of the field's name is src.cfg; src.kv is the field's
\* own KV key and src.env the environment variable
loadConfig(field, src) ==
    LET consolidated == src.raw = "object"
    IN  CASE field = "include_keywords" ->
                IF consolidated /\ src.cfg.t = "arr" THEN src.cfg.a
                ELSE pickList(<<src.kv, src.env>>)
          [] field = "max_loops" ->
                IF consolidated
                THEN parseNumber(coalesce(<<src.cfg, src.kv, src.env, Str(<<"3">>)>>), 3, 1, 10)
                ELSE parseNumber(coalesce(<<src.kv, src.env, Str(<<"3">>)>>), 3, 1, 10)
          [] field = "force_hours" ->
                IF consolidated /\ src.cfg.t = "arr" THEN src.cfg.a
                ELSE pickNumList(<<src.kv, src.env, ForceHoursDefault>>)

(***************************************************************************)
(* loadConfig, applied to every combination of sources of a small alphabet *)
(***************************************************************************)
\* a text of a source has at most MaxText characters
MaxText == 2
Texts(alphabet) == UNION {[1..n -> alphabet] : n \in 0..MaxText}
Strings(alphabet) == {Null} \cup {Str(s) : s \in Texts(alphabet)}

Fields == {"include_keywords", "max_loops", "force_hours"}
CfgValues(field) ==
    CASE field = "include_keywords" -> {Null, Arr(<<>>), Arr(<< <<"c">> >>), Str(<<"c">>)}
      [] field = "max_loops" -> {Null, Num(4), Num(50), Str(<<>>), Str(<<"x">>)}
      [] field = "force_hours" -> {Null, Arr(<<>>), Arr(<<4>>), Str(<<"4">>)}
KvValues(field) ==
    CASE field = "include_keywords" -> Strings({"a", ",", "#", " ", "\n"})
      [] field = "max_loops" -> Strings({"5", "0", "x", " "})
      [] field = "force_hours" -> Strings({"8", ",", "x"})
EnvValues(field) ==
    CASE field = "include_keywords" -> Strings({"b", ",", "#", " ", "\n"})
      [] field = "max_loops" -> Strings({"7", "0", "x", " "})
      [] field = "force_hours" -> Strings({"9", ",", "x"})

InitConfig ==
    /\ AtRest
    /\ \E f \in Fields, raw \in {"absent", "bad", "object"} :
       \E c \in CfgValues(f), k \in KvValues(f), e \in EnvValues(f) :
          call = [fn |-> "loadConfig", field |-> f,
                  src |-> [raw |-> raw, cfg |-> c, kv |-> k, env |-> e],
                  done |-> FALSE, value |-> <<>>]

ConfigApply ==
    /\ call.fn = "loadConfig"
    /\ ~call.done
    /\ call' = [call EXCEPT !.done = TRUE, !.value = loadConfig(call.field, call.src)]
    /\ UNCHANGED <<kvLastSent, kvLastChecked, config, feed, clock, run,
                   deliveredSlots, deliveredLatest>>

NextConfig == ConfigApply

SpecConfig == InitConfig /\ [][NextConfig]_vars

(***************************************************************************)
(* What the claims speak of.                                               *)
(***************************************************************************)
Scheduled(r) == r.kind = "scheduled"
Finished(r) == r.pc = "done"

RECURSIVE concatItems(_)
concatItems(responses) ==
    IF responses = <<>> THEN <<>>
    ELSE Head(responses).items \o concatItems(Tail(responses))
\* the items invocation r has gone through, in the order it got them
received(r) == concatItems(r.responses)

\* the watermark that was persisted when invocation r began
watermarkAt(r) == r.kv0.checked
hasInstant(it) == it.pubDate.valid
instantOf(it) == it.pubDate.local - it.pubDate.offset
newerThan(it, wm) == wm = None \/ instantOf(it) > parseISO(Val(wm))
atOrBefore(it, wm) == hasInstant(it) /\ wm # None /\ instantOf(it) <= parseISO(Val(wm))

titleOf(it) == norm(decodeHtml(stripB(it.title)))
matchesSome(it, keywords) ==
    \E k \in Range(keywords) : includes(titleOf(it), norm(k))

primarySends(r) == {i \in 1..Len(r.sends) : r.sends[i].chat = "primary"}
adminReports(r) ==
    {i \in 1..Len(r.sends) : r.sends[i].chat = "admin" /\ r.sends[i].what = "report"}
writesOf(r, key) == {i \in 1..Len(r.writes) : r.writes[i].key = key}
storeAsAt(r) == kvLastSent = r.kv0.sent /\ kvLastChecked = r.kv0.checked

deliversPrimary(p) ==
    /\ Len(run'[p].sends) = Len(run[p].sends) + 1
    /\ run'[p].sends[Len(run'[p].sends)] = Sent("primary", "news", "ok")

C2_AtMostOncePerSlot ==
    [][\A p \in Procs :
           deliversPrimary(p) => Val(run[p].targetIso) \notin deliveredSlots]_vars

(***************************************************************************)
(* C3: an item with a parsable timestamp that searchRecentNews went        *)
(* through is a candidate iff it is newer than the persisted watermark (or *)
(* none is stored), passes the include list (empty, or a term is in the    *)
(* normalized title), hits no exclude term, and no item accepted before it *)
(* in the run has its canonical URL; the candidate list is those items in  *)
(* feed order.                                                             *)
(***************************************************************************)
passesFilters(r, i) ==
    LET it == received(r)[i]
    IN  /\ newerThan(it, watermarkAt(r))
        /\ (config.include_keywords = <<>> \/ matchesSome(it, config.include_keywords))
        /\ ~matchesSome(it, config.exclude_keywords)
        /\ \A j \in 1..(i - 1) :
              j \in Range(r.accepted) =>
                  normalizeUrl(received(r)[j].link) # normalizeUrl(it.link)

C3_CandidateIff ==
    \A p \in Procs :
        LET r == run[p]
        IN  /\ \A i \in 1..Len(received(r)) :
                  hasInstant(received(r)[i]) =>
                      (i \in Range(r.accepted) <=> passesFilters(r, i))
            /\ Len(r.collected) = Len(r.accepted)
            /\ \A k \in 1..Len(r.accepted) :
                  /\ r.accepted[k] \in 1..Len(received(r))
                  /\ (k > 1 => r.accepted[k - 1] < r.accepted[k])
                  /\ r.collected[k].link = normalizeUrl(received(r)[r.accepted[k]].link)
                  /\ r.collected[k].pubUTC = instantOf(received(r)[r.accepted[k]])

\* a run with a stored watermark and keyword lists that met an old item, a
\* keyword-rejected item or a duplicate, and accepted another
C3_Witness ==
    \E p \in Procs :
        LET r == run[p]
        IN  /\ watermarkAt(r) # None
            /\ config.include_keywords # <<>>
            /\ Len(received(r)) = 2
            /\ Len(r.accepted) = 1
            /\ \A i \in 1..2 : hasInstant(received(r)[i])

(***************************************************************************)
(* C4: a page holding an item at or before the watermark is the last page  *)
(* searchRecentNews requests.                                              *)
(***************************************************************************)
hasOldItem(r, i) ==
    \E it \in Range(r.responses[i].items) : atOrBefore(it, watermarkAt(r))

C4_StopsAfterOldItem ==
    \A p \in Procs :
        LET r == run[p]
        IN  \A i \in 1..Len(r.responses) :
                hasOldItem(r, i) => (i = Len(r.responses) /\ r.pc # "fetch")

\* a full first page with an old item, more pages allowed and more items to serve
C4_Witness ==
    \E p \in Procs :
        LET r == run[p]
        IN  /\ Len(r.responses) = 1
            /\ hasOldItem(r, 1)
            /\ Len(r.responses[1].items) = config.display_per_call
            /\ config.max_loops > 1
            /\ Len(feed) > config.display_per_call
            /\ r.pc \in {"slot", "preview"}

(***************************************************************************)
(* C5: the send gate.  With h the local civil hour (UTC+9) of the          *)
(* invocation instant: when h is in force_hours the gate fires iff there   *)
(* is at least one candidate, whatever the threshold; when h is not in     *)
(* force_hours it fires only with at least min_send_threshold candidates.  *)
(***************************************************************************)
civilHour(nowUTC) == ((nowUTC + 9 * 60) \div 60) % 24

C5_SendGate ==
    (call.fn = "computeShouldSend" /\ call.done) =>
        LET h == civilHour(call.nowUTC)
            c == call.candidateCount
            m == call.minSend
        IN  /\ h \in call.forceHours =>
                  /\ call.shouldSend <=> c >= 1
                  /\ call.sends <=> c >= 1
            /\ h \notin call.forceHours =>
                  /\ call.shouldSend <=> c >= m
                  /\ call.sends => c >= m
                  /\ c = m - 1 => ~call.sends

\* a forced hour, one candidate, a threshold of five: the gate fires
C5_Witness ==
    /\ call.fn = "computeShouldSend" /\ call.done
    /\ civilHour(call.nowUTC) \in call.forceHours
    /\ call.candidateCount = 1 /\ call.minSend = 5
    /\ call.shouldSend /\ call.sends

(***************************************************************************)
(* C6: every write of last_checked_time stores an instant strictly later   *)
(* than the one it replaces, and nothing else changes the stored value.    *)
(***************************************************************************)
writesWatermark(p) ==
    /\ Len(run'[p].writes) = Len(run[p].writes) + 1
    /\ run'[p].writes[Len(run'[p].writes)].key = "last_checked_time_iso"

C6_WatermarkAdvances ==
    [][((\E p \in Procs : writesWatermark(p)) \/ kvLastChecked' # kvLastChecked) =>
          /\ \E p \in Procs : writesWatermark(p)
          /\ kvLastChecked' # None
          /\ kvLastChecked # None =>
                parseISO(Val(kvLastChecked')) > parseISO(Val(kvLastChecked))]_vars

\* a run that found a watermark stored and has replaced it
C6_Witness ==
    \E p \in Procs :
        /\ watermarkAt(run[p]) # None
        /\ writesOf(run[p], "last_checked_time_iso") # {}

(***************************************************************************)
(* C7: a scheduled run whose primary notification was answered with a      *)
(* non-success response updates neither persisted value.                   *)
(***************************************************************************)
primaryRefused(r) ==
    \E i \in primarySends(r) : r.sends[i].outcome = "status"

C7_NoUpdateWithoutDelivery ==
    \A p \in Procs :
        (Scheduled(run[p]) /\ primaryRefused(run[p])) =>
            (run[p].writes = <<>> /\ storeAsAt(run[p]))

(***************************************************************************)
(* C8, as the spec states it: the watermark a run persists after its       *)
(* notification was delivered is at most the latest published_at among the *)
(* candidates it delivered.                                                *)
(***************************************************************************)
primaryDelivered(r) ==
    \E i \in primarySends(r) : r.sends[i].outcome = "ok"
latestCandidate(r) ==
    CHOOSE x \in {c.pubUTC : c \in Range(r.collected)} :
        \A c \in Range(r.collected) : c.pubUTC <= x

C8_WatermarkOfCandidates ==
    \A p \in Procs :
        LET r == run[p]
        IN  \A i \in writesOf(r, "last_checked_time_iso") :
                primaryDelivered(r) => parseISO(r.writes[i].value) <= latestCandidate(r)

(***************************************************************************)
(* C8, amended: the watermark a run persists is the latest published_at    *)
(* among the items of the run that were newer than the watermark it found  *)
(* (the time-filtered items, before the keyword filter and the             *)
(* deduplication), and it is at least the latest candidate's.              *)
(***************************************************************************)
timeFiltered(r) ==
    {i \in 1..Len(received(r)) :
        hasInstant(received(r)[i]) /\ newerThan(received(r)[i], watermarkAt(r))}

C8_WatermarkOfTimeFiltered ==
    \A p \in Procs :
        LET r == run[p]
        IN  \A i \in writesOf(r, "last_checked_time_iso") :
                /\ kvLastChecked = Some(r.writes[i].value)
                /\ \E j \in timeFiltered(r) :
                      parseISO(r.writes[i].value) = instantOf(received(r)[j])
                /\ \A j \in timeFiltered(r) :
                      instantOf(received(r)[j]) <= parseISO(r.writes[i].value)
                /\ latestCandidate(r) <= parseISO(r.writes[i].value)

\* the watermark was set to the instant of an item the keyword filter rejected,
\* later than every candidate delivered
C8_Witness ==
    \E p \in Procs :
        LET r == run[p]
        IN  /\ primaryDelivered(r)
            /\ \E i \in writesOf(r, "last_checked_time_iso") :
                  parseISO(r.writes[i].value) > latestCandidate(r)

(***************************************************************************)
(* C9: a scheduled run that comes to the send gate and does not send (the  *)
(* gate declines, or there is no candidate) writes neither key and sends   *)
(* nothing to the primary channel; the invocation after it, with the feed  *)
(* and the configuration unchanged, computes the same candidates.          *)
(***************************************************************************)
C9_DeclineWritesNothing ==
    \A p \in Procs :
        LET r == run[p]
        IN  /\ (Scheduled(r) /\ r.pc \in {"report", "catch", "done"} /\ r.targetIso # None
                  /\ ~r.skipped /\ (~r.shouldSend \/ Len(r.collected) = 0)) =>
                    (r.writes = <<>> /\ primarySends(r) = {} /\ storeAsAt(r))
            /\ (r.prev # None /\ searchComplete(r)) => r.collected = Val(r.prev)

\* the gate declined with candidates at hand, and the next run found them again
C9_Witness ==
    \E p \in Procs :
        LET r == run[p]
        IN  /\ r.prev # None /\ Val(r.prev) # <<>>
            /\ searchComplete(r)
            /\ Scheduled(r) /\ Finished(r) /\ ~r.threw /\ ~r.shouldSend

(***************************************************************************)
(* C10, as the spec states it: every scheduled invocation that does not    *)
(* throw sends the admin report.                                           *)
(***************************************************************************)
C10_ReportAlways ==
    \A p \in Procs :
        (Scheduled(run[p]) /\ Finished(run[p]) /\ ~run[p].threw) =>
            adminReports(run[p]) # {}

(***************************************************************************)
(* C10, amended: every scheduled invocation that does not throw and is not *)
(* ended by the slot check (last_sent_target equal to its slot) sends the  *)
(* admin report, once and as its last message, whether or not it sent the  *)
(* primary notification; one ended by the slot check sends no report.      *)
(***************************************************************************)
C10_ReportUnlessSkipped ==
    \A p \in Procs :
        LET r == run[p]
        IN  (Scheduled(r) /\ Finished(r) /\ ~r.threw) =>
                IF r.skipped THEN r.sends = <<>>
                ELSE /\ adminReports(r) = {Len(r.sends)}
                     /\ r.sends[Len(r.sends)].outcome # "throw"

\* a run that declined to send and reported
C10_Witness ==
    \E p \in Procs :
        LET r == run[p]
        IN  /\ Scheduled(r) /\ Finished(r) /\ ~r.threw /\ ~r.skipped
            /\ primarySends(r) = {}
            /\ adminReports(r) = {1}

(***************************************************************************)
(* C11: a search request of a scheduled run that fails, with a non-success *)
(* status or with a transport error, after candidates were accepted from   *)
(* the pages before it, ends the paging and does not abort the run: the    *)
(* run goes on to the slot check and the send gate with those candidates.  *)
(***************************************************************************)
failsRequest(p) ==
    /\ Len(run'[p].responses) = Len(run[p].responses) + 1
    /\ run'[p].responses[Len(run'[p].responses)].status \in {"error", "throw"}

C11_FailureKeepsPartial ==
    [][\A p \in Procs :
           (Scheduled(run[p]) /\ run[p].collected # <<>> /\ failsRequest(p)) =>
               /\ run'[p].pc = "slot"
               /\ ~run'[p].threw
               /\ run'[p].collected = run[p].collected]_vars

(***************************************************************************)
(* C12: a scheduled run in which a step threw ends with last_sent_target   *)
(* and last_checked_time equal to their values at the start of the run.    *)
(***************************************************************************)
C12_ThrowLeavesStore ==
    \A p \in Procs :
        (Scheduled(run[p]) /\ Finished(run[p]) /\ run[p].threw) => storeAsAt(run[p])

(***************************************************************************)
(* C13: the promise scheduled returns never rejects, whatever fails inside *)
(* the run, the error notification included.                               *)
(***************************************************************************)
C13_AlwaysReturns ==
    \A p \in Procs :
        (Scheduled(run[p]) /\ Finished(run[p])) => ~run[p].rejected

(***************************************************************************)
(* C14: an item whose pubDate does not parse is dropped without effect: it *)
(* is no candidate, it is counted in none of time_filtered,                *)
(* title_include_fail, title_exclude_hit, its instant is not among those   *)
(* the earliest and the latest are taken from, and it does not raise the   *)
(* stop signal of the watermark filter, with or without a watermark.       *)
(***************************************************************************)
\* per item of a page: is it parsable and newer than the watermark, does it
\* then fail the include list, does it then hit the exclude list
isNew(r, it) == hasInstant(it) /\ newerThan(it, watermarkAt(r))
failsInclude(it) ==
    config.include_keywords # <<>> /\ ~matchesSome(it, config.include_keywords)
hitsExclude(it) == matchesSome(it, config.exclude_keywords)
countsOf(r, items) ==
    LET new == {j \in 1..Len(items) : isNew(r, items[j])}
        fail == {j \in new : failsInclude(items[j])}
        hit == {j \in new \ fail : hitsExclude(items[j])}
    IN  [time_filtered |-> Cardinality(new),
         title_include_fail |-> Cardinality(fail),
         title_exclude_hit |-> Cardinality(hit)]
\* the instants of the parsable items newer than the watermark, in feed order
newInstants(r, rec) ==
    LET s == SelectSeq(rec, LAMBDA it : isNew(r, it))
    IN  [i \in 1..Len(s) |-> instantOf(s[i])]

C14_UnparsableDropped ==
    \A p \in Procs :
        LET r == run[p]
            rec == received(r)
            instants == newInstants(r, rec)
        IN  r.responses # <<>> =>
            /\ \A i \in Range(r.accepted) : hasInstant(rec[i])
            /\ \A k \in 1..Len(r.loopReports) :
                  LET counts == countsOf(r, r.responses[k].items)
                      rep == r.loopReports[k]
                  IN  /\ rep.time_filtered = counts.time_filtered
                      /\ rep.title_include_fail = counts.title_include_fail
                      /\ rep.title_exclude_hit = counts.title_exclude_hit
            /\ r.pubTimesUTC = instants
            /\ r.latestUTC # None =>
                  \A i \in 1..Len(instants) : instants[i] <= Val(r.latestUTC)
            /\ r.stopDueToOld <=> \E it \in Range(rec) : atOrBefore(it, watermarkAt(r))

\* a search that met an unparsable item while a watermark was stored, came to its
\* end without the stop signal and accepted the item after it
C14_Witness ==
    \E p \in Procs :
        LET r == run[p]
        IN  /\ watermarkAt(r) # None
            /\ searchComplete(r)
            /\ Len(received(r)) = 2
            /\ ~hasInstant(received(r)[1])
            /\ ~r.stopDueToOld
            /\ r.accepted = <<2>>

(***************************************************************************)
(* C15, as the spec states it: normalizeUrl is idempotent, and two URLs    *)
(* that differ only in the scheme (http, https) and in the presence or the *)
(* values of the tracking parameters have the same canonical form.         *)
(***************************************************************************)
NamedTracking ==
    {"utm_source", "utm_medium", "utm_campaign", "utm_term", "utm_content",
     "utm_id", "fbclid", "gclid"}
otherParams(u) == SelectSeq(u.params, LAMBDA kv : kv[1] \notin NamedTracking)
\* u and v are URLs that differ at most in the scheme and the tracking parameters
differOnlyInSchemeAndTracking(u, v) ==
    /\ u.valid /\ v.valid
    /\ u.scheme \in {"http", "https"} /\ v.scheme \in {"http", "https"}
    /\ u.port = v.port
    /\ u.rest = v.rest
    /\ otherParams(u) = otherParams(v)
urlDone == call.fn = "normalizeUrl" /\ call.done

passesTimeAndKeywords(r, it) ==
    /\ hasInstant(it)
    /\ newerThan(it, watermarkAt(r))
    /\ (config.include_keywords = <<>> \/ matchesSome(it, config.include_keywords))
    /\ ~matchesSome(it, config.exclude_keywords)
sameCanonical(a, b) == normalizeUrl(a.link) = normalizeUrl(b.link)

C16_NoDuplicateCandidates ==
    \A p \in Procs :
        LET r == run[p]
            rec == received(r)
            passes == [i \in 1..Len(rec) |-> passesTimeAndKeywords(r, rec[i])]
            canonical == [i \in 1..Len(rec) |-> normalizeUrl(rec[i].link)]
            \* item i is the first item of the run with its canonical URL that
            \* passes the filters
            firstOfItsUrl(i) ==
                /\ passes[i]
                /\ \A j \in 1..(i - 1) : passes[j] => canonical[j] # canonical[i]
        IN  /\ \A k, l \in 1..Len(r.collected) :
                  k # l => r.collected[k].link # r.collected[l].link
            /\ \A i \in 1..Len(rec) : i \in Range(r.accepted) <=> firstOfItsUrl(i)

\* two filter-passing items on two pages, raw links different, canonical URL the
\* same: the one of page 1 is the candidate
C16_Witness ==
    \E p \in Procs :
        LET r == run[p]
        IN  /\ Len(r.responses) = 2
            /\ Len(received(r)) = 2
            /\ \A i \in 1..2 : passesTimeAndKeywords(r, received(r)[i])
            /\ received(r)[1].link # received(r)[2].link
            /\ sameCanonical(received(r)[1], received(r)[2])
            /\ r.accepted = <<1>>
            /\ Len(r.collected) = 1

(***************************************************************************)
(* C17: a preview invocation (GET /test) runs the search and the send gate *)
(* but writes neither key, sends nothing to the primary channel, and sends *)
(* its one message, the preview, to the admin channel, whatever the gate   *)
(* decides and whatever last_sent_target holds.                            *)
(***************************************************************************)
IsPreview(r) == r.kind = "preview"
gateOf(r) ==
    IF civilHour(r.eventTime) \in config.force_hours
    THEN Len(r.collected) >= 1
    ELSE Len(r.collected) >= config.min_send_threshold

C17_PreviewIsReadOnly ==
    \A p \in Procs :
        LET r == run[p]
        IN  IsPreview(r) =>
                /\ r.writes = <<>>
                /\ storeAsAt(r)
                /\ \A i \in 1..Len(r.sends) :
                      r.sends[i].chat = "admin" /\ r.sends[i].what = "preview"
                /\ (Finished(r) /\ ~r.threw) =>
                      /\ r.responses # <<>>
                      /\ r.shouldSend = gateOf(r)
                      /\ Len(r.sends) = 1

\* a preview in a slot already handled, with candidates and the gate open
C17_Witness ==
    \E p \in Procs :
        LET r == run[p]
        IN  /\ IsPreview(r) /\ Finished(r) /\ ~r.threw
            /\ r.kv0.sent = Some(slotOf(r.eventTime))
            /\ r.collected # <<>>
            /\ r.shouldSend
            /\ r.sends = <<Sent("admin", "preview", "ok")>>

(***************************************************************************)
(* C18: computeTargetKST.  For every instant now, the slot read as local   *)
(* civil time (UTC+9) is on the hour and its hour is even; it is now       *)
(* rounded down to the hour when that hour is even and one hour later when *)
(* it is odd, from 23:xx the 00:00 of the next day; so                     *)
(* -1h < slot - now <= +1h; and targetUTC = targetKST - 9h.                *)
(***************************************************************************)
targetDone == call.fn = "computeTargetKST" /\ call.done
civilMinutes(nowUTC) == nowUTC + 9 * 60
hourStart(civil) == civil - (civil % 60)
hourOfDay(civil) == (civil \div 60) % 24
dayOf(civil) == civil \div (24 * 60)

C18_TargetSlot ==
    targetDone =>
        LET civil == civilMinutes(call.nowUTC)
            slot == call.targetKST
        IN  /\ slot % 60 = 0
            /\ hourOfDay(slot) % 2 = 0
            /\ hourOfDay(civil) % 2 = 0 => slot = hourStart(civil)
            /\ hourOfDay(civil) % 2 = 1 => slot = hourStart(civil) + 60
            /\ hourOfDay(civil) = 23 =>
                  (hourOfDay(slot) = 0 /\ dayOf(slot) = dayOf(civil) + 1)
            /\ call.targetUTC = slot - 9 * 60
            /\ call.targetUTC - call.nowUTC > -60
            /\ call.targetUTC - call.nowUTC <= 60

\* 23:59 local: the slot is 00:00 of the next day, one minute later
C18_Witness ==
    /\ targetDone
    /\ hourOfDay(civilMinutes(call.nowUTC)) = 23
    /\ civilMinutes(call.nowUTC) % 60 = 59
    /\ call.targetUTC = call.nowUTC + 1
    /\ hourOfDay(call.targetKST) = 0

(***************************************************************************)
(* C19: every field of the configuration resolves to the first non-empty,  *)
(* usable value in the order: consolidated record (cfg:APP), the field's   *)
(* own store key, the environment variable, the static default; an empty   *)
(* or unusable value at a source falls through to the next source.         *)
(***************************************************************************)
configDone == call.fn = "loadConfig" /\ call.done
\* what a source offers for a field: None when it is absent, empty or unusable
offeredNumber(v) ==
    IF v.t = "num" THEN Some(v.n)
    ELSE IF v.t = "str" /\ trim(v.s) # <<>> /\ Number(v) # None THEN Number(v)
    ELSE None
offeredList(v) ==
    IF v.t = "arr" THEN (IF v.a # <<>> THEN Some(v.a) ELSE None)
    ELSE IF v.t = "str" /\ parseListText(v) # <<>> THEN Some(parseListText(v))
    ELSE None
offeredHours(v) ==
    IF v.t = "arr" THEN (IF v.a # <<>> THEN Some(v.a) ELSE None)
    ELSE IF v.t = "str" /\ pickNumList(<<v>>) # <<>> THEN Some(pickNumList(<<v>>))
    ELSE None
RECURSIVE firstOffered(_, _)
firstOffered(offers, default) ==
    IF offers = <<>> THEN default
    ELSE IF Head(offers) # None THEN Val(Head(offers))
    ELSE firstOffered(Tail(offers), default)
\* the sources of the call in priority order, the consolidated record first; for
\* a list field a member of the record that is no array counts as absent
sourcesOf(c) ==
    (IF c.src.raw = "object" /\ (c.field = "max_loops" \/ c.src.cfg.t = "arr")
     THEN <<c.src.cfg>> ELSE <<>>) \o <<c.src.kv, c.src.env>>
clamp(v, min, max) == IF v < min THEN min ELSE IF v > max THEN max ELSE v

C19_PriorityChain ==
    configDone =>
        LET srcs == sourcesOf(call)
        IN  CASE call.field = "include_keywords" ->
                    call.value =
                        firstOffered([i \in 1..Len(srcs) |-> offeredList(srcs[i])], <<>>)
              [] call.field = "max_loops" ->
                    call.value =
                        clamp(firstOffered([i \in 1..Len(srcs) |-> offeredNumber(srcs[i])], 3),
                              1, 10)
              [] call.field = "force_hours" ->
                    call.value =
                        firstOffered([i \in 1..Len(srcs) |-> offeredHours(srcs[i])],
                                     pickNumList(<<ForceHoursDefault>>))

(***************************************************************************)
(* C20: the slot check is an unlocked read-then-write.  An invocation is   *)
(* stopped by it exactly when the value it read equals its slot; one that  *)
(* passed it with the gate open sends, whatever the other invocation has   *)
(* written to last_sent_target since.  Hence the                           *)
(* interleaving of the witness: two overlapping invocations for one slot   *)
(* both read last_sent_target before either writes it, and both deliver.   *)
(***************************************************************************)
checked(r) == Scheduled(r) /\ r.targetIso # None

C20_CheckIsOnlyTheRead ==
    \A p \in Procs :
        LET r == run[p]
        IN  /\ checked(r) => (r.skipped <=> r.lastSent = r.targetIso)
            /\ primarySends(r) # {} => (checked(r) /\ r.lastSent # r.targetIso)
            /\ (checked(r) /\ ~r.skipped /\ r.shouldSend /\ r.collected # <<>>) =>
                  (r.pc = "sendPrimary" \/ primarySends(r) # {})

\* both invocations of one slot read the key before either wrote it, both
\* delivered the notification, and both wrote the slot identifier
C20_Witness ==
    \E p, q \in Procs :
        /\ p # q
        /\ checked(run[p]) /\ checked(run[q])
        /\ run[p].targetIso = run[q].targetIso
        /\ run[p].lastSent = None /\ run[q].lastSent = None
        /\ primaryDelivered(run[p]) /\ primaryDelivered(run[q])
        /\ writesOf(run[p], "last_sent_target_iso") # {}
        /\ writesOf(run[q], "last_sent_target_iso") # {}
        /\ kvLastSent = run[p].targetIso

(***************************************************************************)
(* C21: searchRecentNews terminates, and its page requests go out one      *)
(* after another for page = 1, 2, ..., request number i asking for the     *)
(* items from start = (i - 1) * display_per_call + 1; there are at most    *)
(* max_loops of them, and none follows a page that was empty, held fewer   *)
(* than display_per_call items, or was answered with a non-success status. *)
(***************************************************************************)
\* the items of the result list from position start on, at most display of them
servedFrom(start, display) ==
    [k \in 1..Max(0, Min(display, Len(feed) - start + 1)) |-> feed[start + k - 1]]
fullPage(resp) ==
    resp.status = "ok" /\ Len(resp.items) = config.display_per_call
searching(r) == r.pc = "fetch"

C21_PagesInOrder ==
    \A p \in Procs :
        LET r == run[p]
            n == Len(r.responses)
        IN  /\ n <= config.max_loops
            /\ \A i \in 1..n :
                  /\ r.responses[i].page = i
                  /\ r.responses[i].status = "ok" =>
                        r.responses[i].items =
                            servedFrom((i - 1) * config.display_per_call + 1,
                                       config.display_per_call)
                  /\ i < n => fullPage(r.responses[i])
            /\ searching(r) =>
                  /\ r.page = n + 1
                  /\ n < config.max_loops
                  /\ n > 0 => fullPage(r.responses[n])

C21_PagingTerminates ==
    /\ []C21_PagesInOrder
    /\ \A p \in Procs : searching(run[p]) ~> ~searching(run[p])

\* the ceiling ended the paging: max_loops requests, every page full, no old item
C21_Witness ==
    \E p \in Procs :
        LET r == run[p]
        IN  /\ ~searching(r) /\ searchComplete(r)
            /\ Len(r.responses) = config.max_loops
            /\ fullPage(r.responses[Len(r.responses)])
            /\ ~r.stopDueToOld

(***************************************************************************)
(* C22: leaving the loop at the first old item loses nothing when the      *)
(* result list is ordered newest-first and every timestamp parses: every   *)
(* item of the list the run did not get to is at or before the watermark,  *)
(* and the candidates are those of processing, without the early stop, the *)
(* pages max_loops allows.                                                 *)
(***************************************************************************)
newestFirst(list) ==
    /\ \A i \in 1..Len(list) : hasInstant(list[i])
    /\ \A i \in 1..(Len(list) - 1) : instantOf(list[i]) >= instantOf(list[i + 1])
\* the items the loop goes through when only the ceiling and the end of the
\* result list end it
withoutEarlyStop ==
    SubSeq(feed, 1, Min(Len(feed), config.max_loops * config.display_per_call))
\* the positions in items of the candidates the filter chain makes of them
candidatesOf(r, items) ==
    LET passes == [i \in 1..Len(items) |-> passesTimeAndKeywords(r, items[i])]
        canonical == [i \in 1..Len(items) |-> normalizeUrl(items[i].link)]
    IN  {i \in 1..Len(items) :
            /\ passes[i]
            /\ \A j \in 1..(i - 1) : passes[j] => canonical[j] # canonical[i]}
stoppedEarly(r) ==
    /\ r.stopDueToOld
    /\ Len(received(r)) < Len(withoutEarlyStop)

C22_EarlyStopIsSafe ==
    \A p \in Procs :
        LET r == run[p]
            all == withoutEarlyStop
        IN  (newestFirst(feed) /\ searchComplete(r)) =>
                /\ r.stopDueToOld =>
                      \A i \in (Len(received(r)) + 1)..Len(feed) :
                          atOrBefore(feed[i], watermarkAt(r))
                /\ Range(r.accepted) = candidatesOf(r, all)
                /\ Len(r.collected) = Cardinality(candidatesOf(r, all))
                /\ \A k \in 1..Len(r.collected) :
                      /\ r.collected[k].link = normalizeUrl(all[r.accepted[k]].link)
                      /\ r.collected[k].pubUTC = instantOf(all[r.accepted[k]])

\* a newest-first list of three: the first page holds a candidate and an old item,
\* and the second page, which the ceiling allowed, was not asked for
C22_Witness ==
    \E p \in Procs :
        LET r == run[p]
        IN  /\ newestFirst(feed) /\ searchComplete(r)
            /\ stoppedEarly(r)
            /\ Len(r.responses) = 1
            /\ r.collected # <<>>
            /\ Len(feed) = 3

(***************************************************************************)
(* C23: over scheduled runs one after the other in which every             *)
(* notification is delivered and every write succeeds, no article is       *)
(* delivered to the primary channel twice: once a sending run has written  *)
(* the watermark, every article ever delivered was published at or before  *)
(* the persisted watermark, and every article a run delivers was published *)
(* after everything delivered before it.                                   *)
(***************************************************************************)
\* no invocation is between its notification and its write of the watermark
noSendUnderWay ==
    \A p \in Procs : run[p].pc \notin {"putSent", "putChecked"}
watermarkCoversDelivered ==
    deliveredLatest # None =>
        /\ kvLastChecked # None
        /\ Val(deliveredLatest) <= parseISO(Val(kvLastChecked))
\* every candidate of r was published after everything delivered so far
allFresh(r) ==
    \A c \in Range(r.collected) :
        deliveredLatest = None \/ c.pubUTC > Val(deliveredLatest)

C23_NoRedelivery ==
    /\ [](noSendUnderWay => watermarkCoversDelivered)
    /\ [][\A p \in Procs : deliversPrimary(p) => allFresh(run[p])]_vars

\* a second sending run: it was served an article at the watermark the first one
\* wrote, left it out, and delivered a newer one
C23_Witness ==
    \E p \in Procs :
        LET r == run[p]
        IN  /\ Scheduled(r) /\ Finished(r) /\ primaryDelivered(r)
            /\ Cardinality(deliveredSlots) = 2
            /\ watermarkAt(r) # None
            /\ \E it \in Range(received(r)) :
                  hasInstant(it) /\ instantOf(it) = parseISO(Val(watermarkAt(r)))
            /\ Len(r.collected) = 1
            /\ writesOf(r, "last_checked_time_iso") # {}

(***************************************************************************)
(* C24: every loop report has time_filtered <= fetched and                 *)
(* title_include_fail + title_exclude_hit <= time_filtered, so             *)
(* title_include_pass = time_filtered - title_include_fail, the clamp at 0 *)
(* never taking effect; the candidates accepted from the page are at most  *)
(* title_include_pass - title_exclude_hit; and the reports carry           *)
(* call_no = 1, 2, ..., n in order, one per page that came back with at    *)
(* least one item.                                                         *)
(***************************************************************************)
\* the pages of r that came back with at least one item, in order
pagesWithItems(r) ==
    SelectSeq(r.responses, LAMBDA resp : resp.status = "ok" /\ resp.items # <<>>)
RECURSIVE itemsBefore(_, _)
\* the number of items on the pages before page k
itemsBefore(responses, k) ==
    IF k = 1 THEN 0
    ELSE itemsBefore(responses, k - 1) + Len(responses[k - 1].items)
\* the candidates accepted from page k
acceptedFrom(r, k) ==
    {i \in Range(r.accepted) :
        /\ i > itemsBefore(r.responses, k)
        /\ i <= itemsBefore(r.responses, k) + Len(r.responses[k].items)}

C24_LoopReports ==
    \A p \in Procs :
        LET r == run[p]
        IN  /\ Len(r.loopReports) = Len(pagesWithItems(r))
            /\ \A k \in 1..Len(r.loopReports) :
                  LET rep == r.loopReports[k]
                  IN  /\ rep.call_no = k
                      /\ pagesWithItems(r)[k].page = k
                      /\ rep.fetched = Len(r.responses[k].items)
                      /\ rep.time_filtered >= 0 /\ rep.time_filtered <= rep.fetched
                      /\ rep.title_include_fail >= 0 /\ rep.title_exclude_hit >= 0
                      /\ rep.title_include_fail + rep.title_exclude_hit <= rep.time_filtered
                      /\ rep.title_include_pass = rep.time_filtered - rep.title_include_fail
                      /\ Cardinality(acceptedFrom(r, k)) <=
                            rep.title_include_pass - rep.title_exclude_hit

\* two reports; a keyword list rejected an item of the first page, and of the two
\* items of the second page, which passed both lists, one was a duplicate
C24_Witness ==
    \E p \in Procs :
        LET r == run[p]
        IN  /\ Len(r.loopReports) = 2
            /\ r.loopReports[1].title_include_fail + r.loopReports[1].title_exclude_hit > 0
            /\ r.loopReports[2].title_include_pass - r.loopReports[2].title_exclude_hit = 2
            /\ Cardinality(acceptedFrom(r, 2)) = 1

(***************************************************************************)
(* C25: a scheduled run with no candidates never enters the send branch:   *)
(* it sends nothing to the primary channel and writes neither key, also    *)
(* when the gate says send (min_send_threshold = 0) and also at a forced   *)
(* hour.                                                                   *)
(***************************************************************************)
inSendBranch(r) == r.pc \in {"sendPrimary", "putSent", "putChecked"}
pastGate(r) == Scheduled(r) /\ r.targetIso # None /\ ~r.skipped

C25_NothingWithoutCandidates ==
    \A p \in Procs :
        LET r == run[p]
        IN  (Scheduled(r) /\ r.collected = <<>>) =>
                /\ ~inSendBranch(r)
                /\ primarySends(r) = {}
                /\ r.writes = <<>>
                /\ storeAsAt(r)
                /\ (pastGate(r) /\ ~r.threw) => r.pc \in {"report", "done"}

\* a threshold of 0: the gate said send, there was no candidate, and the run
\* ended with the admin report alone
C25_Witness ==
    \E p \in Procs :
        LET r == run[p]
        IN  /\ pastGate(r) /\ Finished(r) /\ ~r.threw
            /\ config.min_send_threshold = 0
            /\ searchComplete(r)
            /\ r.collected = <<>>
            /\ r.shouldSend
            /\ r.sends = <<Sent("admin", "report", "ok")>>

(***************************************************************************)
(* C26: in a sending run the steps come in the order primary notification, *)
(* write of last_sent_target, write of last_checked_time, admin report,    *)
(* and each key is written at most once; so no run writes the watermark    *)
(* before having written the slot identifier.  When the slot write went    *)
(* through and the watermark write failed, the watermark keeps its old     *)
(* value, and a later invocation for the same slot sends nothing to the    *)
(* primary channel and writes nothing.                                     *)
(***************************************************************************)
sendsNow(p, chat, what) ==
    /\ Len(run'[p].sends) = Len(run[p].sends) + 1
    /\ run'[p].sends[Len(run'[p].sends)].chat = chat
    /\ run'[p].sends[Len(run'[p].sends)].what = what
writesSlot(p) ==
    /\ Len(run'[p].writes) = Len(run[p].writes) + 1
    /\ run'[p].writes[Len(run'[p].writes)].key = "last_sent_target_iso"
keysWritten(r) == [i \in 1..Len(r.writes) |-> r.writes[i].key]
\* the run has sent the primary notification and nothing else
onlyPrimarySent(r) ==
    /\ Len(r.sends) = 1
    /\ r.sends[1].chat = "primary" /\ r.sends[1].outcome # "throw"
\* the slot write of r went through and its watermark write threw
watermarkWriteFailed(r) ==
    /\ keysWritten(r) = <<"last_sent_target_iso">>
    /\ r.latestUTC # None
    /\ r.threw

inOrder(p) ==
    LET r == run[p]
    IN  /\ sendsNow(p, "primary", "news") => (r.sends = <<>> /\ r.writes = <<>>)
        /\ writesSlot(p) => (onlyPrimarySent(r) /\ r.writes = <<>>)
        /\ writesWatermark(p) =>
              (onlyPrimarySent(r) /\ keysWritten(r) = <<"last_sent_target_iso">>)
        /\ (sendsNow(p, "admin", "report") /\ primarySends(r) # {}) =>
              /\ onlyPrimarySent(r)
              /\ keysWritten(r) = <<"last_sent_target_iso", "last_checked_time_iso">>

C26_WriteOrder ==
    /\ [][\A p \in Procs : inOrder(p)]_vars
    /\ [](\A p \in Procs :
            LET r == run[p]
            IN  /\ Cardinality(writesOf(r, "last_sent_target_iso")) <= 1
                /\ Cardinality(writesOf(r, "last_checked_time_iso")) <= 1
                /\ watermarkWriteFailed(r) =>
                      /\ kvLastSent = r.targetIso
                      /\ kvLastChecked = r.kv0.checked
                /\ (Scheduled(r) /\ r.kv0.sent = Some(slotOf(r.eventTime))) =>
                      /\ primarySends(r) = {}
                      /\ r.writes = <<>>
                      /\ kvLastChecked = r.kv0.checked
                      /\ (Finished(r) /\ ~r.threw) => r.skipped)

\* an invocation ended by the slot check in a slot whose notification went out
\* while the watermark stayed behind what was delivered
C26_Witness ==
    \E p \in Procs :
        LET r == run[p]
        IN  /\ Scheduled(r) /\ Finished(r) /\ r.skipped
            /\ Val(r.targetIso) \in deliveredSlots
            /\ r.collected # <<>>
            /\ kvLastChecked = None
            /\ deliveredLatest # None

(***************************************************************************)
(* C27: in the variant of src/unnamed/part_001 an article passes the time  *)
(* filter only if its publish instant is strictly later than the persisted *)
(* watermark, both on one time base; so no article published at or before  *)
(* the watermark the previous send wrote is accepted again.                *)
(***************************************************************************)
C27_SameTimeBase ==
    \A p \in Procs :
        LET r == run[p]
        IN  /\ Len(r.pubTimesUTC) <=
                  Cardinality({i \in 1..Len(received(r)) :
                                  hasInstant(received(r)[i])
                                  /\ newerThan(received(r)[i], watermarkAt(r))})
            /\ \A i \in Range(r.accepted) :
                  newerThan(received(r)[i], watermarkAt(r))

====
